---- MODULE Spec2Model ----
(***************************************************************************)
(* Model of the Streamlit finance tracker in src/main.py.                  *)
(*                                                                         *)
(* The program is a script that Streamlit runs from top to bottom on every *)
(* user interaction.  Its state is st.session_state (transactions,         *)
(* categories), the file transactions.json, and what the run reported.     *)
(* One action of the model is one script run triggered by one interaction: *)
(* load_transactions() at line 36, then the handler of the pressed button, *)
(* including its save and rerun.                                           *)
(*                                                                         *)
(* Conventions: a date is a record [year, month, day]; the 'YYYY-MM-DD'    *)
(* string kept in a transaction is the tuple <<year, month, day>> of its   *)
(* fields; an amount is a number of hundredths; Python's None is the value *)
(* None below, which no widget can produce as a category name.             *)
(***************************************************************************)
EXTENDS Integers, Sequences, FiniteSets, TLC

VARIABLES
    transactions,     \* st.session_state.transactions
    categories,       \* st.session_state.categories
    file,             \* transactions.json
    msg,              \* what the last script run reported to the user
    undo,             \* history: the state before an Add Category that was the last
                      \* command, or the last but one with its removal the last
    filter_type,      \* View Transactions: "Filter by Type" of the last render
    filter_category,  \* View Transactions: "Filter by Category" of the last render
    date_range,       \* View Transactions: "Date Range" of the last render
    filtered_df       \* View Transactions: the rows the last render displayed

vars == <<transactions, categories, file, msg, undo,
          filter_type, filter_category, date_range, filtered_df>>

viewVars == <<filter_type, filter_category, date_range, filtered_df>>

----------------------------------------------------------------------------
(* Bounds and input domains *)

MaxTx == 2          \* at most this many transactions are held
MaxViewTx == 2      \* the same, in the specification of the rendered view

Kinds == {"Income", "Expense"}

None == "<None>"

DateInputs ==
    { [year |-> 2024, month |-> 12, day |-> 31],
      [year |-> 2025, month |-> 1, day |-> 5] }

ViewDateInputs ==
    DateInputs \cup { [year |-> 2025, month |-> 1, day |-> 10] }

\* what the user enters into the date, amount and description widgets of the
\* Add Transaction form
FormInputs ==
    { [ date |-> [year |-> 2024, month |-> 12, day |-> 31],
        amount |-> 1, description |-> "" ],
      [ date |-> [year |-> 2025, month |-> 1, day |-> 5],
        amount |-> 2, description |-> "lunch" ] }

\* the same for the specification of the rendered view
ViewFormInputs ==
    { [ date |-> d, amount |-> 1, description |-> "" ] : d \in ViewDateInputs }

\* categories the user picks in the Add Transaction form (when listed)
CategoryChoices == {"Salary", "Food"}

\* what the user types into "New Category Name"
NewCategoryInputs == {"", "Salary"}

\* the Delete buttons the user presses in Manage Categories, as <<kind, row>>:
\* the first row of the Income list, and the row of any category that can be
\* typed into "New Category Name"
DeleteCategoryInputs(cats) ==
    { << "Income", 1 >> }
    \cup { p \in Kinds \X (1..15) :
             p[2] \in DOMAIN cats[p[1]] /\ cats[p[1]][p[2]] \in NewCategoryInputs }

----------------------------------------------------------------------------
(* Python list and dict helpers *)

Range(s) == { s[i] : i \in DOMAIN s }

\* list.pop(index), index counted from 1
Pop(s, i) == SubSeq(s, 1, i - 1) \o SubSeq(s, i + 1, Len(s))

\* position of the first element of s satisfying equality with x; 0 if none
IndexOf(s, x) ==
    IF \E i \in DOMAIN s : s[i] = x
    THEN CHOOSE i \in DOMAIN s : s[i] = x /\ \A j \in 1..(i - 1) : s[j] # x
    ELSE 0

\* list.remove(x): removes the first occurrence
ListRemove(s, x) == Pop(s, IndexOf(s, x))

RECURSIVE SumSeq(_)
SumSeq(s) == IF s = <<>> THEN 0 ELSE s[1] + SumSeq(Tail(s))

----------------------------------------------------------------------------
(* Session state initialisation, lines 14-22 *)

DefaultCategories ==
    [ Income  |-> << "Salary", "Freelance", "Investments", "Gifts", "Other Income" >>,
      Expense |-> << "Food", "Transportation", "Housing", "Utilities", "Entertainment",
                     "Healthcare", "Education", "Shopping", "Travel", "Other Expense" >> ]

----------------------------------------------------------------------------
(* Dates *)

\* date.strftime('%Y-%m-%d')
strftime(d) == << d.year, d.month, d.day >>

\* pd.to_datetime(s).date()
to_datetime(s) == [year |-> s[1], month |-> s[2], day |-> s[3]]

DateLE(a, b) ==
    \/ a.year < b.year
    \/ a.year = b.year /\ a.month < b.month
    \/ a.year = b.year /\ a.month = b.month /\ a.day <= b.day

----------------------------------------------------------------------------
(* transactions.json *)

NoFile == [state |-> "missing", data |-> <<>>]

JsonStr(v) == IF v = None THEN << "null" >> ELSE << "str", v >>

UnJsonStr(j) == IF j[1] = "null" THEN None ELSE j[2]

\* json.dump of one transaction dict: the keys in insertion order
JsonObject(t) ==
    << << "Date", t.Date >>,
       << "Type", JsonStr(t.Type) >>,
       << "Category", JsonStr(t.Category) >>,
       << "Amount", t.Amount >>,
       << "Description", JsonStr(t.Description) >> >>

UnJsonObject(o) ==
    [ Date        |-> o[1][2],
      Type        |-> UnJsonStr(o[2][2]),
      Category    |-> UnJsonStr(o[3][2]),
      Amount      |-> o[4][2],
      Description |-> UnJsonStr(o[5][2]) ]

json_dump(txs) == [ i \in DOMAIN txs |-> JsonObject(txs[i]) ]

json_load(data) == [ i \in DOMAIN data |-> UnJsonObject(data[i]) ]

\* a save that writes the list without its last record
save_transactions_short(txs) ==
    [state |-> "ok", data |-> json_dump(SubSeq(txs, 1, Len(txs) - 1))]

\* save_transactions: open(..., 'w') and json.dump, both succeeding
save_transactions(txs) == [state |-> "ok", data |-> json_dump(txs)]

\* load_transactions: the session's list is replaced only if the file exists
load_transactions(f, txs) ==
    IF f.state = "missing" THEN txs ELSE json_load(f.data)

\* json.load raises on a file that a failed write left truncated
Loadable(f) == f.state # "truncated"

----------------------------------------------------------------------------
(* Messages a script run reports *)

MsgNone == "none"                                              \* nothing reported
MsgAdded == "Transaction added successfully!"                  \* line 91
MsgDeleted == "Transaction deleted!"                           \* line 48
MsgCategoryDeleted == "Deleted {category} from {category_type} categories!"
MsgCategoryAdded == "Added {new_category} to {category_type} categories!"
MsgCategoryError == "Please enter a unique category name."     \* line 117
MsgException == "exception"                 \* an uncaught exception, shown by Streamlit
MsgConfirm == "I confirm I want to delete all displayed transactions"   \* line 203
MsgBulkDeleted == "Selected transactions deleted!"             \* line 221

NoUndo ==
    [ stage |-> "none", kind |-> "Income", name |-> "",
      categories |-> DefaultCategories, transactions |-> <<>> ]

\* st.number_input("Amount", min_value=0.01), in hundredths
MinAmount == 1

----------------------------------------------------------------------------
(* Tab 1: Add Transaction *)

\* st.selectbox over the taxonomy list of the chosen kind: one of the listed
\* options, or None when there is no option
CategorySelectbox(options) ==
    IF options = <<>> THEN {None} ELSE Range(options) \cap CategoryChoices

new_transaction(d, k, c, a, s) ==
    [ Date        |-> strftime(d),
      Type        |-> k,
      Category    |-> c,
      Amount      |-> a,
      Description |-> s ]

\* the script run of a press of "Add Transaction": load (line 36), append
\* (line 89), save (line 90), report (line 91)
AddTransaction(forms, max) ==
    /\ Loadable(file)
    /\ \E f \in forms, k \in Kinds :
         \E c \in CategorySelectbox(categories[k]) :
           LET loaded == load_transactions(file, transactions)
               txs == Append(loaded, new_transaction(f.date, k, c, f.amount,
                                                     f.description))
           IN  /\ Len(loaded) < max
               /\ f.amount >= MinAmount
               /\ transactions' = txs
               /\ file' = save_transactions(txs)
               /\ msg' = MsgAdded
    /\ undo' = NoUndo
    /\ UNCHANGED categories

AddTransactionClick ==
    /\ AddTransaction(FormInputs, MaxTx)
    /\ UNCHANGED viewVars

----------------------------------------------------------------------------
(* Tab 1: Manage Categories *)

\* a removal by position that always takes the first row
delete_category_first(cats, k, category) ==
    [cats EXCEPT ![k] = Tail(@)]

delete_category(cats, k, category) ==
    [cats EXCEPT ![k] = ListRemove(@, category)]

DeleteCategoryClick ==
    /\ Loadable(file)
    /\ \E p \in DeleteCategoryInputs(categories) :
         /\ p[2] \in DOMAIN categories[p[1]]
         /\ categories' = delete_category(categories, p[1], categories[p[1]][p[2]])
         /\ undo' = IF /\ undo.stage = "added"
                       /\ undo.kind = p[1]
                       /\ undo.name = categories[p[1]][p[2]]
                    THEN [undo EXCEPT !.stage = "removed"]
                    ELSE NoUndo
    /\ transactions' = load_transactions(file, transactions)
    /\ msg' = MsgCategoryDeleted
    /\ UNCHANGED << file, viewVars >>

\* an Add Category that only tests for an empty name
add_category_unchecked(cats, k, new_category) ==
    IF new_category # ""
    THEN [ categories |-> [cats EXCEPT ![k] = Append(@, new_category)],
           msg |-> MsgCategoryAdded ]
    ELSE [ categories |-> cats, msg |-> MsgCategoryError ]

\* the Add Category handler: the taxonomy and the message it leaves
add_category(cats, k, new_category) ==
    IF new_category # "" /\ new_category \notin Range(cats[k])
    THEN [ categories |-> [cats EXCEPT ![k] = Append(@, new_category)],
           msg |-> MsgCategoryAdded ]
    ELSE [ categories |-> cats, msg |-> MsgCategoryError ]

AddCategoryClick ==
    /\ Loadable(file)
    /\ \E k \in Kinds, new_category \in NewCategoryInputs :
         LET r == add_category(categories, k, new_category)
         IN  /\ categories' = r.categories
             /\ msg' = r.msg
             /\ undo' = IF r.msg = MsgCategoryAdded
                        THEN [ stage |-> "added", kind |-> k, name |-> new_category,
                               categories |-> categories,
                               transactions |-> transactions ]
                        ELSE NoUndo
    /\ transactions' = load_transactions(file, transactions)
    /\ UNCHANGED << file, viewVars >>

----------------------------------------------------------------------------
(* Tab 2: View Transactions *)

\* get_transaction_df: the rows, in list order
get_transaction_df(txs) == txs


MinDate(S) ==
    LET d == CHOOSE x \in S : \A y \in S : DateLE(x, y) IN d


MaxDate(S) ==
    LET d == CHOOSE x \in S : \A y \in S : DateLE(y, x) IN d

DatesOf(df) == { to_datetime(df[i].Date) : i \in DOMAIN df }

\* what the three filter widgets can hold for a non-empty df
FilterInputs(df, cats, dates) ==
    LET all_categories == cats["Income"] \o cats["Expense"]
        min_date == MinDate(DatesOf(df))
        max_date == MaxDate(DatesOf(df))
        pickable == { d \in dates \cup DatesOf(df) :
                        DateLE(min_date, d) /\ DateLE(d, max_date) }
    IN  { [ filter_type |-> ft, filter_category |-> fc, date_range |-> dr ] :
            ft \in SUBSET Kinds,
            fc \in SUBSET (Range(all_categories) \cap CategoryChoices),
            dr \in { << s >> : s \in pickable }
                   \cup { p \in pickable \X pickable : DateLE(p[1], p[2]) } }

\* filters that apply the type selection also when it is empty
apply_filters_always(df, ft, fc, dr) ==
    LET by_type == SelectSeq(df, LAMBDA t : t.Type \in ft)
        by_category == IF fc # {}
                       THEN SelectSeq(by_type, LAMBDA t : t.Category \in fc)
                       ELSE by_type
    IN  IF Len(dr) = 2
        THEN SelectSeq(by_category,
                       LAMBDA t : /\ DateLE(dr[1], to_datetime(t.Date))
                                  /\ DateLE(to_datetime(t.Date), dr[2]))
        ELSE by_category

\* lines 150-164
apply_filters(df, ft, fc, dr) ==
    LET by_type == IF ft # {}
                   THEN SelectSeq(df, LAMBDA t : t.Type \in ft)
                   ELSE df
        by_category == IF fc # {}
                       THEN SelectSeq(by_type, LAMBDA t : t.Category \in fc)
                       ELSE by_type
    IN  IF Len(dr) = 2
        THEN SelectSeq(by_category,
                       LAMBDA t : /\ DateLE(dr[1], to_datetime(t.Date))
                                  /\ DateLE(to_datetime(t.Date), dr[2]))
        ELSE by_category

\* a match on date, amount and description only
original_index_loose(txs, row) ==
    LET hits == { i \in DOMAIN txs :
                    /\ txs[i].Date = row.Date
                    /\ txs[i].Amount = row.Amount
                    /\ txs[i].Description = row.Description }
        first == CHOOSE i \in hits : \A j \in hits : i <= j
    IN  IndexOf(txs, txs[first])

\* lines 187-194: the first transaction equal to the row on all five fields,
\* then its position in the list
original_index(txs, row) ==
    LET hits == { i \in DOMAIN txs :
                    /\ txs[i].Date = row.Date
                    /\ txs[i].Type = row.Type
                    /\ txs[i].Category = row.Category
                    /\ txs[i].Amount = row.Amount
                    /\ txs[i].Description = row.Description }
        first == CHOOSE i \in hits : \A j \in hits : i <= j
    IN  IndexOf(txs, txs[first])

\* delete_transaction(index): pop; the save and the message follow in the action
delete_transaction(txs, index) == Pop(txs, index)

\* lines 167-177: the rows that some setting of the filter widgets displays,
\* each with a Delete button
DisplayedRows(df, cats, dates) ==
    UNION { Range(apply_filters(df, f.filter_type, f.filter_category, f.date_range)) :
              f \in FilterInputs(df, cats, dates) }

\* a Delete button of a displayed row is pressed
DeleteRowClick ==
    /\ Loadable(file)
    /\ LET loaded == load_transactions(file, transactions)
           df == get_transaction_df(loaded)
       IN  /\ df # <<>>
           /\ \E row \in DisplayedRows(df, categories, DateInputs) :
                LET txs == delete_transaction(loaded, original_index(loaded, row))
                IN  /\ transactions' = txs
                    /\ file' = save_transactions(txs)
                    /\ msg' = MsgDeleted
    /\ undo' = NoUndo
    /\ UNCHANGED << categories, viewVars >>

----------------------------------------------------------------------------
(* A new browser session: lines 14-22 and 36 *)

NewSession ==
    /\ Loadable(file)
    /\ transactions' = load_transactions(file, <<>>)
    /\ categories' = DefaultCategories
    /\ msg' = MsgNone
    /\ undo' = NoUndo
    /\ UNCHANGED << file, viewVars >>

----------------------------------------------------------------------------
(* Tab 2 as rendered: the filter widgets and the rows they leave *)

\* the default of the "Date Range" widget: [min_date, max_date]
DefaultDateRange(df) == << MinDate(DatesOf(df)), MaxDate(DatesOf(df)) >>

\* the widget keeps its value while its min_value and max_value stay the
\* same, and is created anew with its default when they change
KeptDateRange(old_df, new_df, dr) ==
    IF old_df # <<>> /\ DefaultDateRange(old_df) = DefaultDateRange(new_df)
    THEN dr
    ELSE DefaultDateRange(new_df)

RenderView(df, ft, fc, dr) ==
    /\ filter_type' = ft
    /\ filter_category' = fc
    /\ date_range' = dr
    /\ filtered_df' = apply_filters(df, ft, fc, dr)

\* "Add Transaction" pressed; the run goes on to render tab 2
ViewAddTransactionClick ==
    /\ AddTransaction(ViewFormInputs, MaxViewTx)
    /\ RenderView(get_transaction_df(transactions'), filter_type, filter_category,
                  KeptDateRange(get_transaction_df(load_transactions(file, transactions)),
                                get_transaction_df(transactions'), date_range))

\* the user changes the filter widgets; the run renders tab 2 with them
ViewFilterChange ==
    /\ Loadable(file)
    /\ LET df == get_transaction_df(load_transactions(file, transactions))
       IN  /\ df # <<>>
           /\ \E f \in FilterInputs(df, categories, ViewDateInputs) :
                RenderView(df, f.filter_type, f.filter_category, f.date_range)
    /\ transactions' = load_transactions(file, transactions)
    /\ msg' = MsgNone
    /\ undo' = NoUndo
    /\ UNCHANGED << categories, file >>

----------------------------------------------------------------------------
(* Tab 2: Delete All Displayed Transactions, lines 201-222 *)

\* lines 208-214: the positions of the transactions equal to the row on all
\* five fields, in list order
matching_indices(txs, row) ==
    SelectSeq([ i \in DOMAIN txs |-> i ],
              LAMBDA i : /\ txs[i].Date = row.Date
                         /\ txs[i].Type = row.Type
                         /\ txs[i].Category = row.Category
                         /\ txs[i].Amount = row.Amount
                         /\ txs[i].Description = row.Description)

\* lines 206-214: one round over the list for every displayed row
RECURSIVE indices_to_delete(_, _)
indices_to_delete(txs, view) ==
    IF view = <<>> THEN <<>>
    ELSE matching_indices(txs, view[1]) \o indices_to_delete(txs, Tail(view))

\* sorted(indices_to_delete, reverse=True)
RECURSIVE sorted_reverse(_)
sorted_reverse(s) ==
    IF s = <<>> THEN <<>>
    ELSE LET m == CHOOSE x \in Range(s) : \A y \in Range(s) : y <= x
         IN  << m >> \o sorted_reverse(Pop(s, IndexOf(s, m)))

\* lines 217-218: the pops in that order; pop raises IndexError on an index
\* the list no longer has and leaves the list as the earlier pops made it
RECURSIVE pop_all(_, _)
pop_all(txs, indices) ==
    IF indices = <<>> THEN [ transactions |-> txs, raised |-> FALSE ]
    ELSE IF indices[1] > Len(txs) THEN [ transactions |-> txs, raised |-> TRUE ]
    ELSE pop_all(Pop(txs, indices[1]), Tail(indices))

\* line 203: the checkbox is created by the run in which the button returns
\* True, so this run reads its default value; ticking it starts a run in
\* which the button returns False and the checkbox is not created at all
confirm == FALSE

\* tab 2 rendered over the list a run leaves, the widgets as they were
RenderAgain(old_df, new_df) ==
    IF new_df = <<>>
    THEN filtered_df' = <<>> /\ UNCHANGED << filter_type, filter_category, date_range >>
    ELSE RenderView(new_df, filter_type, filter_category,
                    KeptDateRange(old_df, new_df, date_range))

\* "Delete All Displayed Transactions" pressed under the displayed view
ViewBulkDeleteClick ==
    /\ Loadable(file)
    /\ LET loaded == load_transactions(file, transactions)
           df == get_transaction_df(loaded)
       IN  /\ df # <<>>
           /\ apply_filters(df, filter_type, filter_category, date_range) # <<>>
           /\ IF confirm
              THEN LET view == apply_filters(df, filter_type, filter_category,
                                             date_range)
                       r == pop_all(loaded,
                                    sorted_reverse(indices_to_delete(loaded, view)))
                   IN  /\ transactions' = r.transactions
                       /\ file' = IF r.raised THEN file
                                  ELSE save_transactions(r.transactions)
                       /\ msg' = IF r.raised THEN MsgException ELSE MsgBulkDeleted
                       /\ RenderAgain(df, get_transaction_df(r.transactions))
              ELSE /\ transactions' = loaded
                   /\ file' = file
                   /\ msg' = MsgConfirm
                   /\ RenderAgain(df, df)
    /\ undo' = NoUndo
    /\ UNCHANGED categories

----------------------------------------------------------------------------
(* Failing writes and reads of transactions.json *)

\* save_transactions raising: open() fails and leaves the file as it was, or
\* json.dump fails after open(..., 'w') has truncated it
failed_save(f) == { f, [state |-> "truncated", data |-> <<>>] }

\* "Add Transaction": the append of line 89 is done, line 90 raises
AddTransactionWriteFails ==
    /\ Loadable(file)
    /\ \E f \in FormInputs, k \in Kinds :
         \E c \in CategorySelectbox(categories[k]) :
           LET loaded == load_transactions(file, transactions)
           IN  /\ Len(loaded) < MaxTx
               /\ transactions' = Append(loaded,
                                         new_transaction(f.date, k, c, f.amount,
                                                         f.description))
    /\ file' \in failed_save(file)
    /\ msg' = MsgException
    /\ undo' = NoUndo
    /\ UNCHANGED << categories, viewVars >>

\* a row's Delete: the pop of line 46 is done, line 47 raises
DeleteRowWriteFails ==
    /\ Loadable(file)
    /\ LET loaded == load_transactions(file, transactions)
           df == get_transaction_df(loaded)
       IN  /\ df # <<>>
           /\ \E row \in DisplayedRows(df, categories, DateInputs) :
                transactions' = delete_transaction(loaded, original_index(loaded, row))
    /\ file' \in failed_save(file)
    /\ msg' = MsgException
    /\ undo' = NoUndo
    /\ UNCHANGED << categories, viewVars >>

\* any interaction while the file is truncated: json.load raises at line 36
RunLoadFails ==
    /\ ~ Loadable(file)
    /\ msg' = MsgException
    /\ undo' = NoUndo
    /\ UNCHANGED << transactions, categories, file, viewVars >>

\* a new session while the file is truncated
NewSessionLoadFails ==
    /\ ~ Loadable(file)
    /\ transactions' = <<>>
    /\ categories' = DefaultCategories
    /\ msg' = MsgException
    /\ undo' = NoUndo
    /\ UNCHANGED << file, viewVars >>

----------------------------------------------------------------------------
(* Tab 3: Analysis *)

YearOf(t) == to_datetime(t.Date).year

MonthOf(t) == to_datetime(t.Date).month

Amounts(rows) == [ i \in DOMAIN rows |-> rows[i].Amount ]

\* the period radio and the year and month selectboxes: only years, and months
\* of the chosen year, that some transaction has
AnalysisSelections(df) ==
    { [ period_type |-> "Yearly", year |-> YearOf(df[i]), month |-> 0 ] :
        i \in DOMAIN df }
    \cup { [ period_type |-> "Monthly", year |-> YearOf(df[i]),
             month |-> MonthOf(df[i]) ] : i \in DOMAIN df }

data_to_analyze(df, sel) ==
    SelectSeq(df, LAMBDA t : /\ YearOf(t) = sel.year
                             /\ sel.period_type = "Monthly" => MonthOf(t) = sel.month)

\* period_income / period_expenses: data[data['Type'] == kind]['Amount'].sum()
period_total(data, kind) ==
    SumSeq(Amounts(SelectSeq(data, LAMBDA t : t.Type = kind)))

\* data[data['Type'] == kind].groupby('Category')['Amount'].sum(): one group per
\* category value; groupby leaves out the rows whose key is None (dropna)
by_category(data, kind) ==
    LET rows == SelectSeq(data, LAMBDA t : t.Type = kind)
        keys == { rows[i].Category : i \in DOMAIN rows } \ { None }
    IN  [ c \in keys |->
            SumSeq(Amounts(SelectSeq(rows, LAMBDA t : t.Category = c))) ]

RECURSIVE SumOfGroups(_)
SumOfGroups(g) ==
    IF DOMAIN g = {} THEN 0
    ELSE LET c == CHOOSE x \in DOMAIN g : TRUE
         IN  g[c] + SumOfGroups([ x \in DOMAIN g \ {c} |-> g[x] ])

----------------------------------------------------------------------------
(* Tab 4: Export Data, and the filtered download of tab 2 *)

\* the keys of a transaction dict, lines 81-87, which pd.DataFrame turns into
\* the columns
TransactionColumns == << "Date", "Type", "Category", "Amount", "Description" >>

DataFrame(rows) ==
    [ columns |-> TransactionColumns, dates |-> "str", rows |-> rows ]

\* lines 373-375: Date becomes a datetime, Year and Month are appended
with_year_month(df) ==
    [ columns |-> df.columns \o << "Year", "Month" >>,
      dates   |-> "datetime",
      rows    |-> [ i \in DOMAIN df.rows |->
                      [ c \in Range(df.columns) \cup { "Year", "Month" } |->
                          IF c = "Year" THEN YearOf(df.rows[i])
                          ELSE IF c = "Month" THEN MonthOf(df.rows[i])
                          ELSE IF c = "Date" THEN to_datetime(df.rows[i].Date)
                          ELSE df.rows[i][c] ] ] ]

\* df[mask]: the rows change, the columns stay
select_rows(df, rows) == [ df EXCEPT !.rows = rows ]

\* df.to_csv(index=False): the header line and one line per row
to_csv(df) ==
    [ header |-> df.columns,
      lines  |-> [ i \in DOMAIN df.rows |->
                     [ j \in DOMAIN df.columns |->
                         IF df.columns[j] = "Date" /\ df.dates = "datetime"
                         THEN strftime(df.rows[i]["Date"])
                         ELSE df.rows[i][df.columns[j]] ] ] ]

\* every download link some setting of the widgets offers, with its variant
Exports(txs, cats) ==
    IF txs = <<>> THEN {}
    ELSE
      LET df == DataFrame(get_transaction_df(txs))
          ex == with_year_month(df)
          lo == MinDate(DatesOf(txs))
          hi == MaxDate(DatesOf(txs))
          frames ==
            { [ variant |-> "all", df |-> df ] }
            \cup { [ variant |-> "filtered",
                     df |-> DataFrame(apply_filters(df.rows, f.filter_type,
                                                    f.filter_category, f.date_range)) ] :
                     f \in FilterInputs(txs, cats, DateInputs) }
            \cup { [ variant |-> "year",
                     df |-> select_rows(ex, SelectSeq(ex.rows,
                                LAMBDA r : r["Year"] = y)) ] :
                     y \in { YearOf(txs[i]) : i \in DOMAIN txs } }
            \cup { [ variant |-> "month",
                     df |-> select_rows(ex, SelectSeq(ex.rows,
                                LAMBDA r : /\ r["Year"] = ym[1]
                                           /\ r["Month"] = ym[2])) ] :
                     ym \in { << YearOf(txs[i]), MonthOf(txs[i]) >> : i \in DOMAIN txs } }
            \cup { [ variant |-> "custom",
                     df |-> select_rows(ex, SelectSeq(ex.rows,
                                LAMBDA r : /\ DateLE(p[1], r["Date"])
                                           /\ DateLE(r["Date"], p[2]))) ] :
                     p \in { q \in DatesOf(txs) \X DatesOf(txs) :
                               /\ DateLE(lo, q[1]) /\ DateLE(q[1], q[2])
                               /\ DateLE(q[2], hi) } }
            \cup { [ variant |-> "kind",
                     df |-> select_rows(ex, SelectSeq(ex.rows,
                                LAMBDA r : r["Type"] = k)) ] : k \in Kinds }
      IN  { [ variant |-> e.variant, csv |-> to_csv(e.df) ] :
              e \in { x \in frames : x.df.rows # <<>> } }

----------------------------------------------------------------------------
(* transactions.json removed between two script runs *)

\* os.path.exists('transactions.json') turns false: the file is deleted or
\* moved away outside the program, the session stays as it is
FileRemoved ==
    /\ file.state = "ok"
    /\ file' = NoFile
    /\ UNCHANGED << transactions, categories, msg, undo, viewVars >>

----------------------------------------------------------------------------
Init ==
    /\ file = NoFile
    /\ transactions = load_transactions(NoFile, <<>>)
    /\ categories = DefaultCategories
    /\ msg = MsgNone
    /\ undo = NoUndo
    /\ filter_type = Kinds
    /\ filter_category = {}
    /\ date_range = <<>>
    /\ filtered_df = <<>>

Next ==
    \/ AddTransactionClick
    \/ DeleteCategoryClick
    \/ AddCategoryClick
    \/ DeleteRowClick
    \/ NewSession

Spec == Init /\ [][Next]_vars

\* the View Transactions tab with its filter widgets
NextView ==
    \/ ViewAddTransactionClick
    \/ ViewFilterChange
    \/ ViewBulkDeleteClick

SpecView == Init /\ [][NextView]_vars

\* the program on a disk whose writes can fail
NextFault ==
    \/ Next
    \/ AddTransactionWriteFails
    \/ DeleteRowWriteFails
    \/ RunLoadFails
    \/ NewSessionLoadFails

SpecFault == Init /\ [][NextFault]_vars

\* the program with a transactions.json that can disappear between runs
NextRemoval ==
    \/ Next
    \/ FileRemoved

SpecRemoval == Init /\ [][NextRemoval]_vars

TypeOK ==
    /\ Len(transactions) <= MaxTx + MaxViewTx
    /\ \A i \in DOMAIN transactions : transactions[i].Amount >= MinAmount

----------------------------------------------------------------------------
(* Claims about the store *)

IsValid(t, cats) ==
    /\ t.Amount > 0
    /\ t.Category \in Range(cats[t.Type])

\* C1: every step that appends a transaction appends one with amount > 0 and
\* a category that is in the taxonomy list of its kind at that moment; no
\* other add changes the set (an add with an empty taxonomy list included).
C1_AddIsValidated ==
    [][ Len(transactions') > Len(transactions)
          => /\ transactions' = Append(transactions,
                                       transactions'[Len(transactions')])
             /\ IsValid(transactions'[Len(transactions')], categories) ]_vars

Count(s, x) == Cardinality({ i \in DOMAIN s : s[i] = x })

\* the outcome that C2 asks of a press of Delete on the displayed row `row`
RemovesOneCopy(before, after, row) ==
    /\ Len(after) = Len(before) - 1
    /\ \A x \in Range(before) :
         Count(after, x) = Count(before, x) - (IF x = row THEN 1 ELSE 0)
    /\ \E j \in DOMAIN before : before[j] = row /\ after = Pop(before, j)

C3_FileHoldsTheSet ==
    msg \in { MsgAdded, MsgDeleted }
      => /\ file.state = "ok"
         /\ file.data = json_dump(transactions)
         /\ load_transactions(file, <<>>) = transactions

\* a delete completed and left one transaction, on disk as in memory
C3_Witness ==
    /\ msg = MsgDeleted
    /\ Len(transactions) = 1
    /\ load_transactions(file, <<>>) = transactions

\* C4: a fresh start yields the taxonomy as it was after the last mutation.
C4_TaxonomySurvivesRestart ==
    [][ msg' = MsgNone => categories' = categories ]_vars

\* the transactions that the file holds durably
DurableSet(f) == IF f.state = "ok" THEN json_load(f.data) ELSE <<>>

\* C5: the in-memory set never differs from the durable file (the program
\* keeps no mark of unsaved data, so a failed write has to be rolled back).
C5_NoSilentDivergence ==
    transactions = DurableSet(file)

----------------------------------------------------------------------------
(* Claims about the taxonomy *)

NoDuplicates(l) == \A i, j \in DOMAIN l : l[i] = l[j] => i = j

\* C6: every taxonomy list is duplicate-free in every reachable state; Add
\* Category with an empty name or a name already in the list of the kind
\* reports the error and leaves the taxonomy unchanged, and otherwise appends
\* the name at the end of that list, the rest unchanged.
C6_TaxonomyDuplicateFree ==
    /\ [] ( \A k \in Kinds : NoDuplicates(categories[k]) )
    /\ [] ( \A k \in Kinds, n \in NewCategoryInputs :
              LET r == add_category(categories, k, n)
              IN  IF n = "" \/ n \in Range(categories[k])
                  THEN r.msg = MsgCategoryError /\ r.categories = categories
                  ELSE /\ r.msg = MsgCategoryAdded
                       /\ r.categories[k] = categories[k] \o << n >>
                       /\ \A o \in Kinds \ {k} : r.categories[o] = categories[o] )
    /\ [][ /\ msg' = MsgCategoryError => categories' = categories
           /\ msg' = MsgCategoryAdded
                => \E k \in Kinds, n \in NewCategoryInputs \ { "" } :
                     /\ n \notin Range(categories[k])
                     /\ categories' = [categories EXCEPT ![k] = Append(@, n)] ]_vars

\* a category was appended behind the entries its list already had
C6_Witness ==
    /\ msg = MsgCategoryAdded
    /\ undo.stage = "added"
    /\ Len(undo.categories[undo.kind]) >= 2
    /\ categories[undo.kind] = undo.categories[undo.kind] \o << undo.name >>

\* C7: Add Category of a new name followed by its removal leaves the taxonomy
\* as it was before the two (both kinds, same order) and the transactions as
\* they were, those of that category included.
C7_AddThenRemoveRestores ==
    undo.stage = "removed"
      => /\ categories = undo.categories
         /\ transactions = undo.transactions

\* a category was added and removed again while a transaction carries it
C7_Witness ==
    /\ undo.stage = "removed"
    /\ msg = MsgCategoryDeleted
    /\ \E i \in DOMAIN transactions :
         /\ transactions[i].Type = undo.kind
         /\ transactions[i].Category = undo.name

----------------------------------------------------------------------------
(* Claims about the derived views *)

\* C8: for every period that can be analysed and every kind, the sums of the
\* category breakdown add up to the total of that kind.
C8_BreakdownSumsToTotal ==
    \A sel \in AnalysisSelections(get_transaction_df(transactions)), k \in Kinds :
      LET data == data_to_analyze(get_transaction_df(transactions), sel)
      IN  SumOfGroups(by_category(data, k)) = period_total(data, k)

InView(t, kinds, cats, start, end) ==
    /\ kinds = {} \/ t.Type \in kinds
    /\ cats = {} \/ t.Category \in cats
    /\ DateLE(start, to_datetime(t.Date))
    /\ DateLE(to_datetime(t.Date), end)

\* C9: the displayed view is exactly the sub-list of the transactions whose
\* kind is among the chosen kinds (or none is chosen), whose category is among
\* the chosen categories (or none is chosen) and whose date lies in the chosen
\* range, ends included.
C9_ViewIsTheFilteredSublist ==
    (transactions # <<>> /\ Len(date_range) = 2)
      => filtered_df =
           SelectSeq(transactions,
                     LAMBDA t : InView(t, filter_type, filter_category,
                                       date_range[1], date_range[2]))

\* nothing chosen for kind and category, the whole range: all rows are shown
C9_Witness ==
    /\ Len(transactions) >= 2
    /\ filter_type = {}
    /\ filter_category = {}
    /\ date_range = DefaultDateRange(transactions)
    /\ date_range[1] # date_range[2]
    /\ filtered_df = transactions

\* C10: every export has exactly the five transaction columns, in order.
C10_ExportsHaveFiveColumns ==
    \A e \in Exports(transactions, categories) : e.csv.header = TransactionColumns

----------------------------------------------------------------------------
(* Claims about the load and the bulk delete *)

\* the runs that do nothing to the transactions but load them at line 36
LoadOnlyMsgs == { MsgNone, MsgCategoryAdded, MsgCategoryDeleted, MsgCategoryError }

\* C11: whenever a run loads while transactions.json does not exist, the
\* in-memory transaction set it leaves is empty, at the first start and on a
\* later run of a session that already holds transactions alike.
C11_LoadOfMissingFileIsEmpty ==
    [][ (file.state = "missing" /\ file'.state = "missing" /\ msg' \in LoadOnlyMsgs)
          => transactions' = <<>> ]_vars

\* the runs of a press of "Delete All Displayed Transactions"
BulkDeleteMsgs == { MsgConfirm, MsgBulkDeleted, MsgException }

\* C12: a press of "Delete All Displayed Transactions" removes exactly the
\* transactions of the displayed view, keeps all others in their order, and
\* raises no error, duplicates in the view included.
C12_BulkDeleteRemovesTheView ==
    [][ msg' \in BulkDeleteMsgs
          => /\ transactions' =
                  SelectSeq(transactions, LAMBDA t : t \notin Range(filtered_df))
             /\ msg' # MsgException ]_vars

====
